---- MODULE Spec2Model ----
(***************************************************************************)
(* Script execution runtime of Maps_Script_Helper: the /run handler        *)
(* (backend/app.py run_code), the two executors (backend/docker_runner.py, *)
(* backend/k8s_runner.py) and the output sweep (app.py                     *)
(* cleanup_old_outputs).                                                   *)
(***************************************************************************)
EXTENDS Integers, Sequences, FiniteSets, TLC

\* ------------------------------------------------------------------ bounds
NumJobs == 2
MaxExit == 1
NumThreads == 2
MaxTicks == 2
MaxLogs == 3
MaxFragments == 2
MaxAttempts == 3

\* ------------------------------------------------------- program constants
RunTimeout == 60
PollSleep == 2
max_age_minutes == 30
StaleFactor == 2

Jobs == 1..NumJobs
ExitCodes == 0..MaxExit
Procs == {1, 2}
Threads == 1..NumThreads
Server == 1
Callers == (Procs \X {1}) \cup ({Server} \X Threads)
NoCaller == <<0, 0>>
max_age_seconds == max_age_minutes * 60
TickSeconds == max_age_seconds

FreeLoop == 0
SweepTask == NumJobs + 1

VARIABLES
    runtime,        \* _execution_runtime of the serving process
    loop,           \* task that currently runs on the serving process's event loop
    now,            \* time.time(), in seconds
    pc,             \* position of each /run request in run_code
    active_marker_path, \* run_code's local: set once the marker path is computed
    marker_io,      \* how run_code's last operation on the marker went
    response,       \* which response run_code returns
    joblog,         \* records run_code persisted through script_logger, per job
    dir,            \* OUTPUTS_DIR / job_id exists
    dirMtime,       \* st_mtime of the job directory
    marker,         \* job_dir / ".active" exists
    markerMtime,    \* st_mtime of the marker
    xpc,            \* position of each job inside its executor's run_script
    result,         \* what run_script returned
    container,      \* state of the container runner-{job_id}
    configmap,      \* the config object job-code-{job_id} exists
    pod,            \* the pod runner-{job_id}: phase and container_statuses
    elapsed,        \* time.time() - start_time in wait_for_pod_completion
    created,        \* cluster objects run_script created
    deleteIssued,   \* cluster objects a delete was issued for
    spc,            \* position of each caller of cleanup_old_outputs
    mutex,          \* holder of CLEANUP_MUTEX, per process
    flock,          \* holder of the advisory lock on .cleanup.lock
    lock_fh,        \* cleanup_old_outputs' local: lock file handle state
    current_time,   \* cleanup_old_outputs' local
    todo,           \* entries of OUTPUTS_DIR.iterdir() still to visit
    cur,            \* entry whose marker check passed and is about to be removed
    watch,          \* the caller whose successive scans ref and again describe
    ref,            \* "clean"/"dirty": nobody else changed the tree or the clock since
                    \* the watched caller's last scan began, and that scan met no/an error
    again,          \* what ref was when the watched caller's current scan began
    lpc,            \* position of the serving process inside log_failure / log_success
    call,           \* that call's locals: log_id, session_id, previous_attempt_id
    next_id,        \* the next uuid4 value
    failures_dir,   \* logs/failures/<date>/<log_id>.json
    successes_dir,  \* logs/successes/<date>/<log_id>.json
    sessions_dir,   \* logs/sessions/<session_id>.json
    rpc,            \* position of a reader inside LogAnalyzer._generate_summary
    seen_fixes,     \* the previous_attempt_id values of the success records that reader was given
    seen_unfixed,   \* the failure records it was given that have no fixed_by
    error_message,  \* log_failure's argument
    stderr,         \* log_failure's argument
    error_category, \* log_failure's argument, NoneStr when the caller leaves it out
    error_fields,   \* error_category and error_type of the failure_data it builds
    environ,        \* os.environ of a backend process
    detected,       \* what detect_runtime returned at import of app.py
    boot,           \* how far the import of app.py has got (app.py:51-74)
    script_runner,  \* the module's script_runner: "none", "kubernetes" or "docker"
    k8s_inits,      \* how many times get_k8s_runner() was called
    wpc,            \* position of each process's logger call on the shared logs directory
    wcall,          \* that call's log_id, session_id and status
    session_data,   \* _update_session's local of that call: the session as it was read
    execution_sessions, \* primary keys of the rows of table execution_sessions
    rq              \* the /run request of a client that retries: position and form fields

execVars == <<xpc, result, container, configmap, pod, elapsed, created, deleteIssued>>
fsVars == <<dir, dirMtime, marker, markerMtime>>
runVars == <<pc, active_marker_path, marker_io, response, joblog>>
ghostVars == <<watch, ref, again>>
sweepVars == <<spc, mutex, flock, lock_fh, current_time, todo, cur, ghostVars>>
appVars == <<runtime, loop, now, runVars, fsVars, execVars, sweepVars>>
writerVars == <<lpc, call, next_id, failures_dir, successes_dir, sessions_dir>>
readerVars == <<rpc, seen_fixes, seen_unfixed>>
peerVars == <<wpc, wcall, session_data>>
logVars == <<writerVars, readerVars, peerVars>>
textVars == <<error_message, stderr, error_category, error_fields>>
envVars == <<environ, detected, boot, script_runner, k8s_inits>>
dbVars == <<execution_sessions, rq>>
libVars == <<logVars, textVars, envVars, dbVars>>
vars == <<appVars, libVars>>

\* ---------------------------------------------------------------- results
NoResult == [status |-> "none", exit_code |-> -1, keys |-> {}, logs |-> ""]
NoPod == [phase |-> "absent", container_statuses |-> <<>>]
DockerKeys == {"status", "exit_code", "stdout", "stderr", "logs"}

\* docker_runner.py:107-113
DockerResult(returncode) ==
    [status |-> IF returncode = 0 THEN "success" ELSE "failed",
     exit_code |-> returncode, keys |-> DockerKeys, logs |-> ""]

\* docker_runner.py:126-132
DockerTimeoutResult ==
    [status |-> "timeout", exit_code |-> -1, keys |-> DockerKeys,
     logs |-> "Script execution timed out after 60 seconds"]

\* docker_runner.py:134-141
DockerErrorResult ==
    [status |-> "failed", exit_code |-> -1, keys |-> DockerKeys,
     logs |-> "Docker execution error: [Errno 2] No such file or directory: 'docker'"]

\* k8s_runner.py:164-165
TerminatedExitCode(p) ==
    IF Len(p.container_statuses) > 0 /\ p.container_statuses[1].terminated
    THEN p.container_statuses[1].exit_code
    ELSE 1

\* k8s_runner.py:159-166: the result for a terminal phase
PhaseResult(p) ==
    IF p.phase = "Succeeded"
    THEN [status |-> "success", exit_code |-> 0, keys |-> {"status", "exit_code"}, logs |-> ""]
    ELSE [status |-> "failed", exit_code |-> TerminatedExitCode(p),
          keys |-> {"status", "exit_code"}, logs |-> ""]

\* k8s_runner.py:172-173
PodNotFoundResult ==
    [status |-> "failed", exit_code |-> -1, keys |-> {"status", "exit_code", "error"},
     logs |-> ""]

\* k8s_runner.py:176
PodTimeoutResult ==
    [status |-> "timeout", exit_code |-> -1, keys |-> {"status", "exit_code"}, logs |-> ""]

\* k8s_runner.py:152
BudgetLeft(e) == e < RunTimeout

\* a loop that takes only phase Succeeded as the end of the pod
OnlySucceeded(p) == p.phase = "Succeeded"

\* k8s_runner.py:161-163
IsTerminal(p) == p.phase \in {"Succeeded", "Failed"}

\* k8s_runner.py:257
WithLogs(r) == [r EXCEPT !.keys = @ \cup {"logs"}]

\* what a script that fails on `import cv2` leaves on its output
ImportTraceback ==
    "Traceback (most recent call last): File '/code/main.py', line 1, in <module> import cv2 ModuleNotFoundError: No module named 'cv2'"

\* docker_runner.py:112, k8s_runner.py:180-185: what the script wrote to stdout
\* and stderr, by its exit code: nothing, or the traceback of the failed import
Outputs(exit_code) == IF exit_code > 0 THEN {ImportTraceback} ELSE {""}

\* the result with the captured output under "logs"
Captured(r, output) == [r EXCEPT !.logs = output]

\* ------------------------------------------------- container executor
\* docker_runner.py:98-105: subprocess.run starts `docker run --rm --name runner-{job_id}`;
\* failing to launch it is caught by `except Exception` (134-141).
DockerLaunch(j) ==
    /\ xpc[j] = "d_start"
    /\ \/ /\ container' = [container EXCEPT ![j] = "running"]
          /\ xpc' = [xpc EXCEPT ![j] = "d_wait"]
          /\ UNCHANGED result
       \/ /\ result' = [result EXCEPT ![j] = DockerErrorResult]
          /\ xpc' = [xpc EXCEPT ![j] = "returned"]
          /\ UNCHANGED container
    /\ UNCHANGED <<configmap, pod, elapsed, created, deleteIssued>>
    /\ UNCHANGED <<libVars, runtime, loop, now, runVars, fsVars, sweepVars>>

\* docker_runner.py:100-113: the container exits within the budget, --rm removes it
DockerExit(j) ==
    /\ xpc[j] = "d_wait"
    /\ \E returncode \in ExitCodes :
          \E output \in Outputs(returncode) :
              result' = [result EXCEPT ![j] = Captured(DockerResult(returncode), output)]
    /\ container' = [container EXCEPT ![j] = "absent"]
    /\ xpc' = [xpc EXCEPT ![j] = "returned"]
    /\ UNCHANGED <<configmap, pod, elapsed, created, deleteIssued>>
    /\ UNCHANGED <<libVars, runtime, loop, now, runVars, fsVars, sweepVars>>

\* docker_runner.py:115: subprocess.TimeoutExpired; the docker client is killed,
\* the container keeps running
DockerTimeout(j) ==
    /\ xpc[j] = "d_wait"
    /\ xpc' = [xpc EXCEPT ![j] = "d_stop"]
    /\ UNCHANGED <<result, container, configmap, pod, elapsed, created, deleteIssued>>
    /\ UNCHANGED <<libVars, runtime, loop, now, runVars, fsVars, sweepVars>>

\* docker_runner.py:116-132: `docker stop` is best effort (bare except: pass)
DockerStop(j) ==
    /\ xpc[j] = "d_stop"
    /\ \E stopped \in BOOLEAN :
          container' = [container EXCEPT ![j] = IF stopped THEN "absent" ELSE @]
    /\ result' = [result EXCEPT ![j] = DockerTimeoutResult]
    /\ xpc' = [xpc EXCEPT ![j] = "returned"]
    /\ UNCHANGED <<configmap, pod, elapsed, created, deleteIssued>>
    /\ UNCHANGED <<libVars, runtime, loop, now, runVars, fsVars, sweepVars>>

\* the script of a container that outlived its executor call ends by itself
ContainerExits(j) ==
    /\ xpc[j] \in {"d_stop", "returned"}
    /\ container[j] = "running"
    /\ container' = [container EXCEPT ![j] = "absent"]
    /\ UNCHANGED <<xpc, result, configmap, pod, elapsed, created, deleteIssued>>
    /\ UNCHANGED <<libVars, runtime, loop, now, runVars, fsVars, sweepVars>>

\* ----------------------------------------------- orchestrator executor
\* k8s_runner.py:261-265: the finally block of run_script. The call to cleanup_pod
\* is commented out: nothing is deleted.
RunScriptFinally(issued, j) == issued

\* k8s_runner.py:248, 37-57: create_script_configmap; an ApiException becomes a
\* RuntimeError that leaves run_script through its finally block
K8sCreateConfigMap(j) ==
    /\ xpc[j] = "k_cm"
    /\ \/ /\ configmap' = [configmap EXCEPT ![j] = TRUE]
          /\ created' = created \cup {<<"configmap", j>>}
          /\ xpc' = [xpc EXCEPT ![j] = "k_pod"]
          /\ UNCHANGED deleteIssued
       \/ /\ xpc' = [xpc EXCEPT ![j] = "raised"]
          /\ deleteIssued' = RunScriptFinally(deleteIssued, j)
          /\ UNCHANGED <<configmap, created>>
    /\ UNCHANGED <<result, container, pod, elapsed>>
    /\ UNCHANGED <<libVars, runtime, loop, now, runVars, fsVars, sweepVars>>

\* k8s_runner.py:251, 137-145: create_runner_pod; wait_for_pod_completion then
\* takes start_time (150)
K8sCreatePod(j) ==
    /\ xpc[j] = "k_pod"
    /\ \/ /\ pod' = [pod EXCEPT ![j] = [phase |-> "Pending", container_statuses |-> <<>>]]
          /\ created' = created \cup {<<"pod", j>>}
          /\ elapsed' = [elapsed EXCEPT ![j] = 0]
          /\ xpc' = [xpc EXCEPT ![j] = "k_wait"]
          /\ UNCHANGED deleteIssued
       \/ /\ xpc' = [xpc EXCEPT ![j] = "raised"]
          /\ deleteIssued' = RunScriptFinally(deleteIssued, j)
          /\ UNCHANGED <<pod, created, elapsed>>
    /\ UNCHANGED <<result, container, configmap>>
    /\ UNCHANGED <<libVars, runtime, loop, now, runVars, fsVars, sweepVars>>

\* k8s_runner.py:152-174: one iteration of the polling loop
K8sPoll(j) ==
    /\ xpc[j] = "k_wait"
    /\ BudgetLeft(elapsed[j])
    /\ \/ /\ pod[j].phase = "absent"          \* ApiException, status 404
          /\ result' = [result EXCEPT ![j] = PodNotFoundResult]
          /\ xpc' = [xpc EXCEPT ![j] = "k_logs"]
          /\ UNCHANGED <<elapsed, deleteIssued>>
       \/ /\ xpc' = [xpc EXCEPT ![j] = "raised"]   \* any other ApiException: raise
          /\ deleteIssued' = RunScriptFinally(deleteIssued, j)
          /\ elapsed' = [elapsed EXCEPT ![j] = 0]
          /\ UNCHANGED result
       \/ /\ pod[j].phase # "absent"
          /\ IsTerminal(pod[j])
          /\ result' = [result EXCEPT ![j] = PhaseResult(pod[j])]
          /\ xpc' = [xpc EXCEPT ![j] = "k_logs"]
          /\ UNCHANGED <<elapsed, deleteIssued>>
       \/ /\ pod[j].phase # "absent"
          /\ ~IsTerminal(pod[j])
          /\ elapsed' = [elapsed EXCEPT ![j] = @ + PollSleep]   \* time.sleep(2)
          /\ UNCHANGED <<xpc, result, deleteIssued>>
    /\ UNCHANGED <<container, configmap, pod, created>>
    /\ UNCHANGED <<libVars, runtime, loop, now, runVars, fsVars, sweepVars>>

\* k8s_runner.py:152, 176: the loop ends because the budget is used up
K8sWaitTimeout(j) ==
    /\ xpc[j] = "k_wait"
    /\ ~BudgetLeft(elapsed[j])
    /\ result' = [result EXCEPT ![j] = PodTimeoutResult]
    /\ xpc' = [xpc EXCEPT ![j] = "k_logs"]
    /\ UNCHANGED <<container, configmap, pod, elapsed, created, deleteIssued>>
    /\ UNCHANGED <<libVars, runtime, loop, now, runVars, fsVars, sweepVars>>

\* k8s_runner.py:257-265, 178-188: get_pod_logs never raises an ApiException;
\* run_script returns through its finally block
K8sGetLogs(j) ==
    /\ xpc[j] = "k_logs"
    /\ \E output \in Outputs(result[j].exit_code) :
          result' = [result EXCEPT ![j] = Captured(WithLogs(@), output)]
    /\ deleteIssued' = RunScriptFinally(deleteIssued, j)
    /\ xpc' = [xpc EXCEPT ![j] = "returned"]
    /\ elapsed' = [elapsed EXCEPT ![j] = 0]
    /\ UNCHANGED <<container, configmap, pod, created>>
    /\ UNCHANGED <<libVars, runtime, loop, now, runVars, fsVars, sweepVars>>

\* ------------------------------------------------ the cluster (environment)
\* the scheduler starts the pod's container (the cluster is followed while
\* run_script polls the pod)
PodStarts(j) ==
    /\ xpc[j] = "k_wait"
    /\ pod[j].phase = "Pending"
    /\ pod' = [pod EXCEPT ![j] = [phase |-> "Running",
                  container_statuses |-> <<[terminated |-> FALSE, exit_code |-> 0]>>]]
    /\ UNCHANGED <<xpc, result, container, configmap, elapsed, created, deleteIssued>>
    /\ UNCHANGED <<libVars, runtime, loop, now, runVars, fsVars, sweepVars>>

\* the script ends: job_runner.py exits 0, or nonzero on an unhandled error
PodFinishes(j) ==
    /\ xpc[j] = "k_wait"
    /\ pod[j].phase = "Running"
    /\ \E c \in ExitCodes :
          pod' = [pod EXCEPT ![j] =
                    [phase |-> IF c = 0 THEN "Succeeded" ELSE "Failed",
                     container_statuses |-> <<[terminated |-> TRUE, exit_code |-> c]>>]]
    /\ UNCHANGED <<xpc, result, container, configmap, elapsed, created, deleteIssued>>
    /\ UNCHANGED <<libVars, runtime, loop, now, runVars, fsVars, sweepVars>>

\* the kubelet fails the pod (eviction, node shutdown): the phase is Failed whatever
\* the container reports: no status, a status not yet terminated, or the code the
\* process ended with when it was told to stop
PodEvicted(j) ==
    /\ xpc[j] = "k_wait"
    /\ pod[j].phase \in {"Pending", "Running"}
    /\ \E cs \in {<<>>, <<[terminated |-> FALSE, exit_code |-> 0]>>}
                 \cup {<<[terminated |-> TRUE, exit_code |-> c]>> : c \in ExitCodes} :
          pod' = [pod EXCEPT ![j] = [phase |-> "Failed", container_statuses |-> cs]]
    /\ UNCHANGED <<xpc, result, container, configmap, elapsed, created, deleteIssued>>
    /\ UNCHANGED <<libVars, runtime, loop, now, runVars, fsVars, sweepVars>>

\* somebody else deletes the pod while run_script polls it
PodVanishes(j) ==
    /\ pod[j].phase # "absent"
    /\ xpc[j] = "k_wait"
    /\ pod' = [pod EXCEPT ![j] = NoPod]
    /\ UNCHANGED <<xpc, result, container, configmap, elapsed, created, deleteIssued>>
    /\ UNCHANGED <<libVars, runtime, loop, now, runVars, fsVars, sweepVars>>

\* ------------------------------------------------------------- str methods
AsciiUpper == "ABCDEFGHIJKLMNOPQRSTUVWXYZ"
AsciiLower == "abcdefghijklmnopqrstuvwxyz"
Digits == "0123456789"

\* the i-th character of s, as a string of length one
Char(s, i) == SubSeq(s, i, i)

\* Python's `k in t` for strings
Contains(t, k) == \E i \in 1 .. Len(t) - Len(k) + 1 : SubSeq(t, i, i + Len(k) - 1) = k

\* the lower-case letter of each capital
LowerOf ==
    [c \in {Char(AsciiUpper, i) : i \in 1 .. Len(AsciiUpper)} |->
        Char(AsciiLower, CHOOSE i \in 1 .. Len(AsciiUpper) : Char(AsciiUpper, i) = c)]

\* str.lower on one character
LowerChar(c) == IF c \in DOMAIN LowerOf THEN LowerOf[c] ELSE c

\* str.lower, character by character (the string is split in halves)
RECURSIVE lower(_)
lower(s) ==
    IF Len(s) = 0 THEN ""
    ELSE IF Len(s) = 1 THEN LowerChar(s)
    ELSE lower(SubSeq(s, 1, Len(s) \div 2)) \o lower(SubSeq(s, Len(s) \div 2 + 1, Len(s)))

\* the regular expression class \w
IsWordChar(c) == Contains(AsciiLower, c) \/ Contains(AsciiUpper, c) \/ Contains(Digits, c) \/ c = "_"

\* s[:n]
Prefix(s, n) == IF Len(s) <= n THEN s ELSE SubSeq(s, 1, n)

\* ------------------------------------------- script_logger.py: classification
\* Python's None where the code holds Optional[str]
NoneStr == ""

\* the same tests with the access test tried before every error-class test
categorize_access_first(message, err) ==
    LET error_text == lower(message \o " " \o err)
    IN  IF Contains(error_text, "import") \/ Contains(error_text, "modulenotfounderror")
        THEN "import_error"
        ELSE IF Contains(error_text, "permission") \/ Contains(error_text, "access")
        THEN "permission_error"
        ELSE IF Contains(error_text, "attributeerror") THEN "attribute_error"
        ELSE IF Contains(error_text, "keyerror") \/ Contains(error_text, "indexerror")
        THEN "data_access_error"
        ELSE IF Contains(error_text, "typeerror") THEN "type_error"
        ELSE IF Contains(error_text, "valueerror") THEN "value_error"
        ELSE IF Contains(error_text, "filenotfounderror") \/ Contains(error_text, "no such file")
        THEN "file_not_found"
        ELSE IF Contains(error_text, "timeout") THEN "timeout"
        ELSE IF Contains(error_text, "memory") THEN "memory_error"
        ELSE IF Contains(error_text, "syntax") THEN "syntax_error"
        ELSE "unknown"

\* script_logger.py:275-300
categorize_error(message, err) ==
    LET error_text == lower(message \o " " \o err)
    IN  IF Contains(error_text, "import") \/ Contains(error_text, "modulenotfounderror")
        THEN "import_error"
        ELSE IF Contains(error_text, "attributeerror") THEN "attribute_error"
        ELSE IF Contains(error_text, "keyerror") \/ Contains(error_text, "indexerror")
        THEN "data_access_error"
        ELSE IF Contains(error_text, "typeerror") THEN "type_error"
        ELSE IF Contains(error_text, "valueerror") THEN "value_error"
        ELSE IF Contains(error_text, "filenotfounderror") \/ Contains(error_text, "no such file")
        THEN "file_not_found"
        ELSE IF Contains(error_text, "permission") \/ Contains(error_text, "access")
        THEN "permission_error"
        ELSE IF Contains(error_text, "timeout") THEN "timeout"
        ELSE IF Contains(error_text, "memory") THEN "memory_error"
        ELSE IF Contains(error_text, "syntax") THEN "syntax_error"
        ELSE "unknown"

\* script_logger.py:309: where \w+ can end, for a match of \w+<suffix>: that
\* begins at position i of s
WordEnds(s, i, suffix) ==
    {j \in i .. Len(s) - Len(suffix) - 1 :
        /\ SubSeq(s, j + 1, j + Len(suffix)) = suffix
        /\ Char(s, j + Len(suffix) + 1) = ":"
        /\ \A k \in i .. j : IsWordChar(Char(s, k))}

Greatest(S) == CHOOSE j \in S : \A k \in S : k <= j

\* script_logger.py:309-311: group(1) of re.search(r'(\w+Error|\w+Exception):', s):
\* the leftmost match, the first alternative before the second, \w+ greedy
SearchErrorType(s) ==
    LET starts == {i \in 1 .. Len(s) :
                      WordEnds(s, i, "Error") \cup WordEnds(s, i, "Exception") # {}}
    IN  IF starts = {} THEN NoneStr
        ELSE LET i == CHOOSE a \in starts : \A b \in starts : a <= b
                 suffix == IF WordEnds(s, i, "Error") # {} THEN "Error" ELSE "Exception"
             IN  SubSeq(s, i, Greatest(WordEnds(s, i, suffix)) + Len(suffix))

\* script_logger.py:302-312
extract_error_type(err) == IF err = "" THEN NoneStr ELSE SearchErrorType(err)

\* ------------------------------------------------------- /run (run_code)
\* a change of the output tree or of the clock: no caller's last scan describes
\* the present any more
Noisy == "none"

\* app.py:1234
IsTimeout(r) == r.status = "timeout"

\* app.py:1264-1268, 1272: the ProcResult's returncode
ProcReturnCode(x, r) ==
    IF x # "returned" THEN 1 ELSE IF r.status = "success" THEN 0 ELSE 1

\* app.py:1236-1247
TimeoutLog == [kind |-> "failure", category |-> "timeout", return_code |-> -1]

\* app.py:1264-1272: the ProcResult's stdout
ProcStdout(x, r) == IF x = "returned" /\ "logs" \in r.keys THEN r.logs ELSE ""

\* app.py:1204-1205, 1269-1272: str(e) of what was raised, for instance by the
\* write of request.json or by the creation of the pod
ExceptionText(x) ==
    IF x = "skipped" THEN "[Errno 2] No such file or directory: 'request.json'"
    ELSE "Failed to create Pod: (403) Reason: Forbidden"

\* app.py:1264-1272: the ProcResult's stderr; no executor returns status "error"
ProcStderr(x, r) ==
    IF x = "returned" THEN (IF r.status = "error" THEN "error" ELSE "")
    ELSE ExceptionText(x)

\* app.py:1281-1287: error_details["message"]
ErrorMessage(out, err) ==
    IF err = "" /\ out # "" THEN "Script exited with code 1. Check stdout for details."
    ELSE IF err # "" THEN "Script exited with code 1. Error: " \o Prefix(err, 200)
    ELSE "Script exited with code 1"

\* the stdout and stderr a ProcResult can hold
StdoutValues ==
    {"", ImportTraceback, DockerTimeoutResult.logs, DockerErrorResult.logs}
StderrValues == {"", ExceptionText("skipped"), ExceptionText("raised")}

\* script_logger.py:130-133: the category log_failure gives the call of
\* app.py:1290-1301, which passes no error_category, for each such ProcResult
FailureCategory ==
    [out \in StdoutValues, err \in StderrValues |->
        categorize_error(ErrorMessage(out, err), err)]

\* app.py:1290-1301: the failure record
FailureLog(x, r) ==
    [kind |-> "failure",
     category |-> FailureCategory[ProcStdout(x, r), ProcStderr(x, r)],
     return_code |-> 1]

\* app.py:1370-1380
SuccessLog == [kind |-> "success", category |-> "none", return_code |-> 0]

\* app.py:1026: active_marker_path.write_text; ok is whether the write went through
WriteMarker(m, j, ok) == [m EXCEPT ![j] = @ \/ ok]

\* an unlink that removes nothing
UnlinkMarkerNoop(m, j, ok) == m

\* app.py:1422: active_marker_path.unlink(missing_ok=True); ok is whether it went through
UnlinkMarker(m, j, ok) == [m EXCEPT ![j] = @ /\ ~ok]

\* app.py:1014-1021: the request takes the event loop and creates its job directories
RunMkdirs(j) ==
    /\ boot = "serving"
    /\ pc[j] = "idle"
    /\ loop = FreeLoop
    /\ loop' = j
    /\ dir' = [dir EXCEPT ![j] = TRUE]
    /\ dirMtime' = [dirMtime EXCEPT ![j] = now]
    /\ pc' = [pc EXCEPT ![j] = "dirs"]
    /\ ref' = Noisy
    /\ UNCHANGED <<active_marker_path, marker_io, response, joblog, marker, markerMtime>>
    /\ UNCHANGED <<spc, mutex, flock, lock_fh, current_time, todo, cur, watch, again>>
    /\ UNCHANGED <<libVars, runtime, now, execVars>>

\* app.py:1024-1028: write the marker; a failed write is only logged
RunWriteMarker(j) ==
    /\ pc[j] = "dirs"
    /\ loop = j
    /\ active_marker_path' = [active_marker_path EXCEPT ![j] = TRUE]
    /\ \E ok \in BOOLEAN :
          /\ ok => dir[j]
          /\ marker' = WriteMarker(marker, j, ok)
          /\ marker_io' = [marker_io EXCEPT ![j] = IF ok THEN "written" ELSE "write_failed"]
          /\ markerMtime' = [markerMtime EXCEPT ![j] = IF ok THEN now ELSE @]
          /\ dirMtime' = [dirMtime EXCEPT ![j] = IF ok THEN now ELSE @]
    /\ pc' = [pc EXCEPT ![j] = "marked"]
    /\ ref' = Noisy
    /\ UNCHANGED <<response, joblog, dir>>
    /\ UNCHANGED <<spc, mutex, flock, lock_fh, current_time, todo, cur, watch, again>>
    /\ UNCHANGED <<libVars, runtime, loop, now, execVars>>

\* app.py:1055-1097: write main.py and stage the input image. The request is
\* rejected (1057, 1064, 1071, 1079, 1082), or takes the sample image, or awaits
\* the upload (1097), which frees the event loop. Writing into a directory that
\* is gone raises into the handler's outer except (1414-1418).
RunStage(j) ==
    /\ pc[j] = "marked"
    /\ loop = j
    /\ \/ /\ response' = [response EXCEPT ![j] = IF dir[j] THEN "rejected" ELSE "error"]
          /\ pc' = [pc EXCEPT ![j] = "finally"]
          /\ UNCHANGED loop
       \/ /\ dir[j]
          /\ pc' = [pc EXCEPT ![j] = "ready"]
          /\ UNCHANGED <<response, loop>>
       \/ /\ dir[j]
          /\ pc' = [pc EXCEPT ![j] = "await"]
          /\ loop' = FreeLoop
          /\ UNCHANGED response
    /\ UNCHANGED <<active_marker_path, marker_io, joblog>>
    /\ UNCHANGED <<libVars, runtime, now, fsVars, execVars, sweepVars>>

\* app.py:1097-1187: the upload has been read; saving it may fail (1186-1187)
RunImageSaved(j) ==
    /\ pc[j] = "await"
    /\ loop = FreeLoop
    /\ loop' = j
    /\ \/ /\ dir[j]
          /\ pc' = [pc EXCEPT ![j] = "ready"]
          /\ UNCHANGED response
       \/ /\ response' = [response EXCEPT ![j] = "rejected"]
          /\ pc' = [pc EXCEPT ![j] = "finally"]
    /\ UNCHANGED <<active_marker_path, marker_io, joblog>>
    /\ UNCHANGED <<libVars, runtime, now, fsVars, execVars, sweepVars>>

\* app.py:1199-1231: write request.json, then the synchronous call of
\* script_runner.run_script; a write that raises (always, once the directory is
\* gone) is caught at 1269 and the executor is not called
RunCallExecutor(j) ==
    /\ pc[j] = "ready"
    /\ loop = j
    /\ pc' = [pc EXCEPT ![j] = "exec"]
    /\ \/ /\ dir[j]
          /\ xpc' = [xpc EXCEPT ![j] = IF runtime = "kubernetes" THEN "k_cm" ELSE "d_start"]
       \/ xpc' = [xpc EXCEPT ![j] = "skipped"]
    /\ UNCHANGED <<active_marker_path, marker_io, response, joblog>>
    /\ UNCHANGED <<result, container, configmap, pod, elapsed, created, deleteIssued>>
    /\ UNCHANGED <<libVars, runtime, loop, now, fsVars, sweepVars>>

\* app.py:1274-1313, 1414-1418: the code-error path: log_failure writes its
\* record and the handler answers 400, or log_failure raises into the outer
\* except, which answers 500
CodeErrorPath(j) ==
    \/ /\ joblog' = [joblog EXCEPT ![j] = Append(@, FailureLog(xpc[j], result[j]))]
       /\ response' = [response EXCEPT ![j] = "failed"]
    \/ /\ response' = [response EXCEPT ![j] = "error"]
       /\ UNCHANGED joblog

\* app.py:1233-1262: the timeout path. It lies inside the try block that 1269
\* closes: when log_failure raises, the handler goes on at 1272 with returncode 1,
\* on the code-error path.
ReportTimeout(j) ==
    /\ xpc[j] = "returned"
    /\ IsTimeout(result[j])
    /\ \/ /\ joblog' = [joblog EXCEPT ![j] = Append(@, TimeoutLog)]
          /\ response' = [response EXCEPT ![j] = "timeout"]
       \/ CodeErrorPath(j)

\* app.py:1264-1313: the code-error path, also taken when request.json could not
\* be written or run_script raised (1269-1272)
ReportFailed(j) ==
    /\ xpc[j] # "returned" \/ ~IsTimeout(result[j])
    /\ ProcReturnCode(xpc[j], result[j]) # 0
    /\ CodeErrorPath(j)

\* app.py:1315-1418: no output file (1328-1329), or the success record and
\* response, or log_success raises into the outer except
ReportSuccess(j) ==
    /\ xpc[j] = "returned"
    /\ ~IsTimeout(result[j])
    /\ ProcReturnCode(xpc[j], result[j]) = 0
    /\ \/ /\ response' = [response EXCEPT ![j] = "no_output"]
          /\ UNCHANGED joblog
       \/ /\ dir[j]
          /\ joblog' = [joblog EXCEPT ![j] = Append(@, SuccessLog)]
          /\ response' = [response EXCEPT ![j] = "ok"]
       \/ /\ response' = [response EXCEPT ![j] = "error"]
          /\ UNCHANGED joblog

\* app.py:1233-1413: run_code branches on what the executor call gave
RunReport(j) ==
    /\ pc[j] = "exec"
    /\ loop = j
    /\ xpc[j] \in {"returned", "raised", "skipped"}
    /\ ReportTimeout(j) \/ ReportFailed(j) \/ ReportSuccess(j)
    /\ pc' = [pc EXCEPT ![j] = "finally"]
    /\ UNCHANGED <<active_marker_path, marker_io>>
    /\ UNCHANGED <<libVars, runtime, loop, now, fsVars, execVars, sweepVars>>

\* app.py:1419-1424: the finally block removes the marker, best effort, and the
\* handler returns, which frees the event loop
RunFinally(j) ==
    /\ pc[j] = "finally"
    /\ loop = j
    /\ \E ok \in BOOLEAN :
          /\ marker' = IF active_marker_path[j] THEN UnlinkMarker(marker, j, ok) ELSE marker
          /\ marker_io' = [marker_io EXCEPT ![j] = IF ~active_marker_path[j] THEN @
                                                   ELSE IF ok THEN "unlinked" ELSE "unlink_failed"]
          /\ dirMtime' = [dirMtime EXCEPT ![j] = IF marker'[j] # marker[j] THEN now ELSE @]
    /\ pc' = [pc EXCEPT ![j] = "done"]
    /\ loop' = FreeLoop
    /\ ref' = Noisy
    /\ UNCHANGED <<active_marker_path, response, joblog, dir, markerMtime>>
    /\ UNCHANGED <<spc, mutex, flock, lock_fh, current_time, todo, cur, watch, again>>
    /\ UNCHANGED <<libVars, runtime, now, execVars>>

\* ------------------------------------------- cleanup_old_outputs (the sweep)
\* app.py:876-880, 903: thread 1 of a process runs its periodic_cleanup task;
\* the serving process's runs on the event loop that also runs run_code
IsPeriodic(c) == c[2] = 1

OnLoop(c) == c = <<Server, 1>>

\* app.py:690: the marker is fresh
MarkerFresh(t, mtime) == t - mtime < max_age_seconds * StaleFactor

\* an age test that lets the threshold itself pass as young
OldEnoughStrictly(t, mtime) == t - mtime > max_age_seconds

\* app.py:698-701: the directory is old enough to go
OldEnough(t, mtime) == t - mtime >= max_age_seconds

\* app.py:654: `with CLEANUP_MUTEX:` can be entered
MutexFree(p) == mutex[p] = 0

\* app.py:665: flock(LOCK_EX | LOCK_NB) can be granted
FlockFree == flock = NoCaller

\* a change by caller c: no other caller's last scan describes the present any more
NoisyBut(c) == IF c = watch THEN ref ELSE "none"

\* the caller's scan met an error
Dirty(c) == IF c = watch /\ ref # "none" THEN "dirty" ELSE ref

\* app.py:709-718 and the end of `with CLEANUP_MUTEX`: the locks are released
\* and the call's locals are gone
Leave(c) ==
    /\ flock' = IF lock_fh[c] = "locked" THEN NoCaller ELSE flock
    /\ lock_fh' = [lock_fh EXCEPT ![c] = "none"]
    /\ mutex' = [mutex EXCEPT ![c[1]] = 0]
    /\ loop' = IF OnLoop(c) THEN FreeLoop ELSE loop
    /\ current_time' = [current_time EXCEPT ![c] = 0]
    /\ todo' = [todo EXCEPT ![c] = {}]
    /\ cur' = [cur EXCEPT ![c] = 0]

\* app.py:639-652, 878-880: a call begins (OUTPUTS_DIR exists since import,
\* app.py:443). A periodic task whose call raised has ended and calls no more.
SweepCall(c) ==
    /\ spc[c] = "idle" \/ (spc[c] = "raised" /\ ~IsPeriodic(c))
    /\ OnLoop(c) => loop = FreeLoop
    /\ loop' = IF OnLoop(c) THEN SweepTask ELSE loop
    /\ spc' = [spc EXCEPT ![c] = "enter"]
    /\ again' = IF c = watch THEN "none" ELSE again
    /\ UNCHANGED <<mutex, flock, lock_fh, current_time, todo, cur, watch, ref>>
    /\ UNCHANGED <<libVars, runtime, now, runVars, fsVars, execVars>>

\* app.py:654: `with CLEANUP_MUTEX:` waits until the mutex is free
SweepAcquire(c) ==
    /\ spc[c] = "enter"
    /\ MutexFree(c[1])
    /\ mutex' = [mutex EXCEPT ![c[1]] = c[2]]
    /\ spc' = [spc EXCEPT ![c] = "lock"]
    /\ UNCHANGED <<flock, lock_fh, current_time, todo, cur, ghostVars>>
    /\ UNCHANGED <<libVars, runtime, loop, now, runVars, fsVars, execVars>>

\* app.py:672-673: opening the lock file failed: go on without the file lock
SweepOpenFailed(c) ==
    /\ spc[c] = "lock"
    /\ lock_fh' = [lock_fh EXCEPT ![c] = "none"]
    /\ spc' = [spc EXCEPT ![c] = "list"]
    /\ UNCHANGED <<mutex, flock, current_time, todo, cur, ghostVars>>
    /\ UNCHANGED <<libVars, runtime, loop, now, runVars, fsVars, execVars>>

\* app.py:661-665: flock(LOCK_EX | LOCK_NB) succeeded
SweepLocked(c) ==
    /\ spc[c] = "lock"
    /\ FlockFree
    /\ flock' = c
    /\ lock_fh' = [lock_fh EXCEPT ![c] = "locked"]
    /\ spc' = [spc EXCEPT ![c] = "list"]
    /\ UNCHANGED <<mutex, current_time, todo, cur, ghostVars>>
    /\ UNCHANGED <<libVars, runtime, loop, now, runVars, fsVars, execVars>>

\* app.py:666-671: flock raised (the lock is held elsewhere, or fcntl is
\* unavailable): close the file and return without scanning
SweepSkip(c) ==
    /\ spc[c] = "lock"
    /\ Leave(c)
    /\ spc' = [spc EXCEPT ![c] = "idle"]
    /\ UNCHANGED ghostVars
    /\ UNCHANGED <<libVars, runtime, now, runVars, fsVars, execVars>>

\* app.py:676-680: take current_time and list OUTPUTS_DIR
SweepList(c) ==
    /\ spc[c] = "list"
    /\ current_time' = [current_time EXCEPT ![c] = now]
    /\ todo' = [todo EXCEPT ![c] = {d \in Jobs : dir[d]}]
    /\ spc' = [spc EXCEPT ![c] = "scan"]
    /\ again' = IF c = watch THEN ref ELSE again
    /\ ref' = IF c = watch THEN "clean" ELSE ref
    /\ UNCHANGED <<mutex, flock, lock_fh, cur, watch>>
    /\ UNCHANGED <<libVars, runtime, loop, now, runVars, fsVars, execVars>>

\* app.py:680, 709-718: iterdir raises; the exception leaves the call through
\* the finally block
SweepListFailed(c) ==
    /\ spc[c] = "list"
    /\ Leave(c)
    /\ spc' = [spc EXCEPT ![c] = "raised"]
    /\ again' = IF c = watch THEN ref ELSE again
    /\ ref' = IF c = watch THEN "none" ELSE ref
    /\ UNCHANGED watch
    /\ UNCHANGED <<libVars, runtime, now, runVars, fsVars, execVars>>

\* app.py:681-694: does the entry go on to the age test? statOk is whether the
\* marker's stat went through
PassesMarkerTest(c, d, statOk) ==
    /\ dir[d]
    /\ marker[d] => (statOk /\ ~MarkerFresh(current_time[c], markerMtime[d]))

\* app.py:680-694: visit one entry
SweepCheck(c, d) ==
    /\ spc[c] = "scan"
    /\ d \in todo[c]
    /\ todo' = [todo EXCEPT ![c] = @ \ {d}]
    /\ \E statOk \in BOOLEAN :
          /\ (~statOk) => (dir[d] /\ marker[d])
          /\ ref' = IF statOk THEN ref ELSE Dirty(c)
          /\ IF PassesMarkerTest(c, d, statOk)
             THEN /\ cur' = [cur EXCEPT ![c] = d]
                  /\ spc' = [spc EXCEPT ![c] = "remove"]
             ELSE /\ spc' = [spc EXCEPT ![c] = IF statOk THEN "scan" ELSE "except"]
                  /\ UNCHANGED cur
    /\ UNCHANGED <<mutex, flock, lock_fh, current_time, watch, again>>
    /\ UNCHANGED <<libVars, runtime, loop, now, runVars, fsVars, execVars>>

\* app.py:696-703: the directory is old enough and rmtree removes it
SweepRemove(c) ==
    /\ spc[c] = "remove"
    /\ dir[cur[c]]
    /\ OldEnough(current_time[c], dirMtime[cur[c]])
    /\ dir' = [dir EXCEPT ![cur[c]] = FALSE]
    /\ marker' = [marker EXCEPT ![cur[c]] = FALSE]
    /\ ref' = NoisyBut(c)
    /\ cur' = [cur EXCEPT ![c] = 0]
    /\ spc' = [spc EXCEPT ![c] = "scan"]
    /\ UNCHANGED <<dirMtime, markerMtime>>
    /\ UNCHANGED <<mutex, flock, lock_fh, current_time, todo, watch, again>>
    /\ UNCHANGED <<libVars, runtime, loop, now, runVars, execVars>>

\* app.py:699-701: the directory is too young: leave it
SweepKeep(c) ==
    /\ spc[c] = "remove"
    /\ dir[cur[c]]
    /\ ~OldEnough(current_time[c], dirMtime[cur[c]])
    /\ cur' = [cur EXCEPT ![c] = 0]
    /\ spc' = [spc EXCEPT ![c] = "scan"]
    /\ UNCHANGED <<mutex, flock, lock_fh, current_time, todo, ghostVars>>
    /\ UNCHANGED <<libVars, runtime, loop, now, runVars, fsVars, execVars>>

\* app.py:696-704: stat or rmtree raised (always, once the directory is gone)
SweepRemoveFailed(c) ==
    /\ spc[c] = "remove"
    /\ ref' = Dirty(c)
    /\ cur' = [cur EXCEPT ![c] = 0]
    /\ spc' = [spc EXCEPT ![c] = "except"]
    /\ UNCHANGED <<mutex, flock, lock_fh, current_time, todo, watch, again>>
    /\ UNCHANGED <<libVars, runtime, loop, now, runVars, fsVars, execVars>>

\* app.py:692-694, 704-705: the except block skips the entry (after a warning
\* when the removal failed) and the loop goes on
SweepExcept(c) ==
    /\ spc[c] = "except"
    /\ spc' = [spc EXCEPT ![c] = "scan"]
    /\ UNCHANGED <<mutex, flock, lock_fh, current_time, todo, cur, ghostVars>>
    /\ UNCHANGED <<libVars, runtime, loop, now, runVars, fsVars, execVars>>

\* a return taken before every entry was visited
SweepReturnEarly(c) ==
    /\ spc[c] = "scan"
    /\ Leave(c)
    /\ spc' = [spc EXCEPT ![c] = "idle"]
    /\ again' = IF c = watch THEN "none" ELSE again
    /\ UNCHANGED <<watch, ref>>
    /\ UNCHANGED <<libVars, runtime, now, runVars, fsVars, execVars>>

\* app.py:707-718: every entry was visited
SweepReturn(c) ==
    /\ spc[c] = "scan"
    /\ todo[c] = {}
    /\ Leave(c)
    /\ spc' = [spc EXCEPT ![c] = "idle"]
    /\ again' = IF c = watch THEN "none" ELSE again
    /\ UNCHANGED <<watch, ref>>
    /\ UNCHANGED <<libVars, runtime, now, runVars, fsVars, execVars>>

\* time passes
Tick ==
    /\ now < MaxTicks * TickSeconds
    /\ now' = now + TickSeconds
    /\ ref' = Noisy
    /\ UNCHANGED <<spc, mutex, flock, lock_fh, current_time, todo, cur, watch, again>>
    /\ UNCHANGED <<libVars, runtime, loop, runVars, fsVars, execVars>>

\* ------------------------------------------------------ script_logger.py
\* Log ids are uuid4 values: the n-th id handed out is n. StrangerId stands for
\* an id a client made up: it names no record.
LogIds == 1 .. MaxLogs
StrangerId == MaxLogs + 1
FileNames == 1 .. StrangerId
None == 0
NoFile == [log_id |-> None]

\* script_logger.py:131-156: failure_data (no fixed_by key yet: .get gives None)
failure_data(log_id, session_id, previous_attempt_id) ==
    [log_id |-> log_id, session_id |-> session_id, status |-> "failed",
     previous_attempt_id |-> previous_attempt_id, fixed_by |-> None]

\* script_logger.py:193-213: success_data
success_data(log_id, session_id, previous_attempt_id) ==
    [log_id |-> log_id, session_id |-> session_id, status |-> "success",
     previous_attempt_id |-> previous_attempt_id]

\* script_logger.py:231-241: the session as _update_session reads it, or the
\* new session when there is no file
load_session(sessions, session_id) ==
    IF sessions[session_id] # NoFile
    THEN sessions[session_id]
    ELSE [session_id |-> session_id, attempts |-> <<>>, status |-> "in_progress"]

\* script_logger.py:243-253: the attempt is appended to what was read
append_attempt(data, log_id, status) ==
    [data EXCEPT !.attempts = Append(@, [log_id |-> log_id, status |-> status]),
                 !.status = IF status = "success" THEN "resolved" ELSE @]

\* script_logger.py:228-256: the session file after _update_session
update_session(sessions, session_id, log_id, status) ==
    [sessions EXCEPT
        ![session_id] = append_attempt(load_session(sessions, session_id), log_id, status)]

\* the same search, writing fixed_by only where none is set
mark_failure_if_unfixed(failures, failure_log_id, success_log_id) ==
    IF failures[failure_log_id] # NoFile /\ failures[failure_log_id].fixed_by = None
    THEN [failures EXCEPT ![failure_log_id].fixed_by = success_log_id]
    ELSE failures

\* the same search, rewriting the record's status along with fixed_by
mark_failure_and_status(failures, failure_log_id, success_log_id) ==
    IF failures[failure_log_id] # NoFile
    THEN [failures EXCEPT ![failure_log_id].fixed_by = success_log_id,
                          ![failure_log_id].status = "fixed"]
    ELSE failures

\* script_logger.py:258-273: the failures directory after _mark_failure_as_fixed
mark_failure_as_fixed(failures, failure_log_id, success_log_id) ==
    IF failures[failure_log_id] # NoFile
    THEN [failures EXCEPT ![failure_log_id].fixed_by = success_log_id]
    ELSE failures

NoCall == [kind |-> "none", log_id |-> None, session_id |-> None, previous_attempt_id |-> None]

CallOver == {"idle", "returned", "raised"}

\* app.py:954, 1311: what a client sends as session_id: nothing, or a session id
\* an earlier response gave it
SessionArgs == {None} \cup {i \in LogIds : i < next_id}

\* app.py:955, 1310: what a client sends as previous_attempt_id: nothing, a log
\* id an earlier response gave it, or a string of its own
AttemptArgs == {None, StrangerId} \cup {i \in LogIds : i < next_id}

\* script_logger.py:106-163: log_failure up to the write of the failure file
LogFailure(session_id, previous_attempt_id) ==
    /\ lpc \in CallOver
    /\ next_id <= MaxLogs
    /\ LET log_id == next_id
           sid == IF session_id = None THEN log_id ELSE session_id
       IN  /\ call' = [kind |-> "failed", log_id |-> log_id, session_id |-> sid,
                       previous_attempt_id |-> previous_attempt_id]
           /\ failures_dir' = [failures_dir EXCEPT
                                 ![log_id] = failure_data(log_id, sid, previous_attempt_id)]
    /\ next_id' = next_id + 1
    /\ lpc' = "session"
    /\ UNCHANGED <<successes_dir, sessions_dir, readerVars>>
    /\ UNCHANGED <<appVars, textVars, envVars, peerVars, dbVars>>

\* script_logger.py:170-217: log_success up to the write of the success file
LogSuccess(session_id, previous_attempt_id) ==
    /\ lpc \in CallOver
    /\ next_id <= MaxLogs
    /\ LET log_id == next_id
           sid == IF session_id = None THEN log_id ELSE session_id
       IN  /\ call' = [kind |-> "success", log_id |-> log_id, session_id |-> sid,
                       previous_attempt_id |-> previous_attempt_id]
           /\ successes_dir' = [successes_dir EXCEPT
                                  ![log_id] = success_data(log_id, sid, previous_attempt_id)]
    /\ next_id' = next_id + 1
    /\ lpc' = "session"
    /\ UNCHANGED <<failures_dir, sessions_dir, readerVars>>
    /\ UNCHANGED <<appVars, textVars, envVars, peerVars, dbVars>>

\* script_logger.py:166, 220: the call of _update_session; log_failure returns
\* after it, log_success goes on when previous_attempt_id is given (223)
LogUpdateSession ==
    /\ lpc = "session"
    /\ sessions_dir' = update_session(sessions_dir, call.session_id, call.log_id, call.kind)
    /\ lpc' = IF call.kind = "success" /\ call.previous_attempt_id # None
              THEN "mark" ELSE "returned"
    /\ UNCHANGED <<call, next_id, failures_dir, successes_dir, readerVars>>
    /\ UNCHANGED <<appVars, textVars, envVars, peerVars, dbVars>>

\* script_logger.py:223-226: the call of _mark_failure_as_fixed, then the return
LogMarkFixed ==
    /\ lpc = "mark"
    /\ failures_dir' = mark_failure_as_fixed(failures_dir, call.previous_attempt_id, call.log_id)
    /\ lpc' = "returned"
    /\ UNCHANGED <<call, next_id, successes_dir, sessions_dir, readerVars>>
    /\ UNCHANGED <<appVars, textVars, envVars, peerVars, dbVars>>

\* script_logger.py:240-256, 264-272: reading or writing the session file or the
\* failure file raises; neither function catches it
LogRaise ==
    /\ lpc \in {"session", "mark"}
    /\ lpc' = "raised"
    /\ UNCHANGED <<call, next_id, failures_dir, successes_dir, sessions_dir, readerVars>>
    /\ UNCHANGED <<appVars, textVars, envVars, peerVars, dbVars>>

\* log_analyzer.py:62: _generate_summary reads every success record
AnalyzerReadSuccesses ==
    /\ rpc = "idle"
    /\ seen_fixes' = {successes_dir[i].previous_attempt_id :
                        i \in {x \in LogIds : successes_dir[x] # NoFile}} \ {None}
    /\ rpc' = "successes"
    /\ UNCHANGED <<seen_unfixed, writerVars>>
    /\ UNCHANGED <<appVars, textVars, envVars, peerVars, dbVars>>

\* log_analyzer.py:63: then every failure record, counting those without fixed_by
AnalyzerReadFailures ==
    /\ rpc = "successes"
    /\ seen_unfixed' = {i \in LogIds : failures_dir[i] # NoFile /\ failures_dir[i].fixed_by = None}
    /\ rpc' = "summary"
    /\ UNCHANGED <<seen_fixes, writerVars>>
    /\ UNCHANGED <<appVars, textVars, envVars, peerVars, dbVars>>

\* log_analyzer.py:74-82: the summary is returned
AnalyzerReturn ==
    /\ rpc = "summary"
    /\ rpc' = "idle"
    /\ seen_fixes' = {}
    /\ seen_unfixed' = {}
    /\ UNCHANGED writerVars
    /\ UNCHANGED <<appVars, textVars, envVars, peerVars, dbVars>>

\* script_logger.py:106-163, 170-217: a backend process logs an attempt (its
\* ScriptLogger works on the logs directory it shares with the other process)
\* and has written the failure or success file
SharedLog(w, kind, session_id) ==
    /\ wpc[w] \in {"idle", "returned"}
    /\ next_id <= MaxLogs
    /\ LET log_id == next_id
           sid == IF session_id = None THEN log_id ELSE session_id
       IN  /\ wcall' = [wcall EXCEPT ![w] = [kind |-> kind, log_id |-> log_id,
                                             session_id |-> sid,
                                             previous_attempt_id |-> None]]
           /\ IF kind = "failed"
              THEN /\ failures_dir' = [failures_dir EXCEPT
                                         ![log_id] = failure_data(log_id, sid, None)]
                   /\ UNCHANGED successes_dir
              ELSE /\ successes_dir' = [successes_dir EXCEPT
                                          ![log_id] = success_data(log_id, sid, None)]
                   /\ UNCHANGED failures_dir
    /\ next_id' = next_id + 1
    /\ wpc' = [wpc EXCEPT ![w] = "load"]
    /\ UNCHANGED <<lpc, call, sessions_dir, session_data, readerVars>>
    /\ UNCHANGED <<appVars, textVars, envVars, dbVars>>

\* script_logger.py:230-241: _update_session reads the session file
SharedLoad(w) ==
    /\ wpc[w] = "load"
    /\ session_data' = [session_data EXCEPT
                          ![w] = load_session(sessions_dir, wcall[w].session_id)]
    /\ wpc' = [wpc EXCEPT ![w] = "dump"]
    /\ UNCHANGED <<wcall, writerVars, readerVars>>
    /\ UNCHANGED <<appVars, textVars, envVars, dbVars>>

\* script_logger.py:243-256: it appends the attempt to what it read and writes
\* the file; log_failure and log_success return
SharedDump(w) ==
    /\ wpc[w] = "dump"
    /\ sessions_dir' = [sessions_dir EXCEPT
                          ![wcall[w].session_id] =
                              append_attempt(session_data[w], wcall[w].log_id, wcall[w].kind)]
    /\ session_data' = [session_data EXCEPT ![w] = NoFile]
    /\ wpc' = [wpc EXCEPT ![w] = "returned"]
    /\ UNCHANGED <<wcall, lpc, call, next_id, failures_dir, successes_dir, readerVars>>
    /\ UNCHANGED <<appVars, textVars, envVars, dbVars>>

\* app.py:954, 1311: what a client sends as session_id: nothing, or the id of a
\* session an earlier response gave it (the session file is written by then)
SharedSessionArgs == {None} \cup {i \in LogIds : sessions_dir[i] # NoFile}

NextShared ==
    \/ \E w \in Procs, kind \in {"failed", "success"}, s \in SharedSessionArgs :
          SharedLog(w, kind, s)
    \/ \E w \in Procs : SharedLoad(w)
    \/ \E w \in Procs : SharedDump(w)

\* ------------------------------------- /run and table execution_sessions
\* uuid.uuid4() of the n-th request: an id that no session has
FreshId(n) == StrangerId + n

NoRequest == [pos |-> "idle", n |-> 0, session_id |-> None, registered |-> FALSE]

NoDb == execution_sessions = {} /\ rq = NoRequest

\* app.py:948-959: the client sends /run: its first attempt without session_id,
\* a retry with the session_id an earlier response gave it (app.py:1261, 1311,
\* 1396); user_id names a registered user or not
RetryRequest(session_id, registered) ==
    /\ rq.pos \in {"idle", "done", "error"}
    /\ rq.n < MaxAttempts
    /\ rq' = [pos |-> "record", n |-> rq.n + 1, session_id |-> session_id,
              registered |-> registered]
    /\ UNCHANGED execution_sessions
    /\ UNCHANGED <<appVars, logVars, textVars, envVars>>

\* app.py:999-1012, models.py:223-227: for a registered user a row with primary
\* key `session_id or uuid4()` is added and committed; a key that is already
\* in the table makes the commit raise IntegrityError, which the handler's
\* except clause turns into the 500 response (app.py:1414-1418)
RetryCreateRecord ==
    /\ rq.pos = "record"
    /\ LET id == IF rq.session_id # None THEN rq.session_id ELSE FreshId(rq.n)
       IN  IF ~rq.registered
           THEN /\ rq' = [rq EXCEPT !.pos = "job"]
                /\ UNCHANGED execution_sessions
           ELSE IF id \in execution_sessions
           THEN /\ rq' = [rq EXCEPT !.pos = "error"]
                /\ UNCHANGED execution_sessions
           ELSE /\ rq' = [rq EXCEPT !.pos = "job"]
                /\ execution_sessions' = execution_sessions \cup {id}
    /\ UNCHANGED <<appVars, logVars, textVars, envVars>>

\* app.py:1014-1396: the job goes to the executor and its outcome is logged as
\* an attempt of the session (script_logger.py:106-226); the response carries
\* `session_id or log_id`
RetryRunJob(kind) ==
    /\ rq.pos = "job"
    /\ next_id <= MaxLogs
    /\ LET log_id == next_id
           sid == IF rq.session_id = None THEN log_id ELSE rq.session_id
       IN  /\ IF kind = "failed"
              THEN /\ failures_dir' = [failures_dir EXCEPT
                                         ![log_id] = failure_data(log_id, sid, None)]
                   /\ UNCHANGED successes_dir
              ELSE /\ successes_dir' = [successes_dir EXCEPT
                                          ![log_id] = success_data(log_id, sid, None)]
                   /\ UNCHANGED failures_dir
           /\ sessions_dir' = update_session(sessions_dir, sid, log_id, kind)
    /\ next_id' = next_id + 1
    /\ rq' = [rq EXCEPT !.pos = "done"]
    /\ UNCHANGED <<lpc, call, readerVars, peerVars, execution_sessions>>
    /\ UNCHANGED <<appVars, textVars, envVars>>

NextRetry ==
    \/ \E s \in SharedSessionArgs, registered \in BOOLEAN : RetryRequest(s, registered)
    \/ RetryCreateRecord
    \/ \E kind \in {"failed", "success"} : RetryRunJob(kind)

NextLog ==
    \/ \E s \in SessionArgs, p \in AttemptArgs : LogFailure(s, p)
    \/ \E s \in SessionArgs, p \in AttemptArgs : LogSuccess(s, p)
    \/ LogUpdateSession
    \/ LogMarkFixed
    \/ LogRaise
    \/ AnalyzerReadSuccesses
    \/ AnalyzerReadFailures
    \/ AnalyzerReturn

\* script_logger.py:63-90: the logs directory of a fresh installation
LogsEmpty ==
    /\ lpc = "idle"
    /\ call = NoCall
    /\ next_id = 1
    /\ failures_dir = [i \in FileNames |-> NoFile]
    /\ successes_dir = [i \in FileNames |-> NoFile]
    /\ sessions_dir = [i \in FileNames |-> NoFile]
    /\ rpc = "idle"
    /\ seen_fixes = {}
    /\ seen_unfixed = {}
    /\ wpc = [w \in Procs |-> "idle"]
    /\ wcall = [w \in Procs |-> NoCall]
    /\ session_data = [w \in Procs |-> NoFile]

\* the pieces error messages and stderr texts are put together from
Fragments ==
    {"Traceback (most recent call last): ",
     "ModuleNotFoundError: ",
     "No module named 'cv2' ",
     "import cv2 ",
     "KeyError: 'x' ",
     "Script exited with code 1 "}

RECURSIVE Texts(_)
Texts(n) ==
    IF n = 0 THEN {""}
    ELSE Texts(n - 1) \cup {t \o f : t \in Texts(n - 1), f \in Fragments}

\* script_logger.py:118: the error_category a caller passes (app.py:1246), if any
CategoryArgs == {NoneStr, "timeout"}

NoFields == [error_category |-> NoneStr, error_type |-> NoneStr, written |-> FALSE]

\* script_logger.py:130-147: log_failure fills error_category and error_type
LogFailureClassify ==
    /\ ~error_fields.written
    /\ error_fields' =
          [error_category |-> IF error_category # NoneStr THEN error_category
                              ELSE categorize_error(error_message, stderr),
           error_type |-> extract_error_type(stderr),
           written |-> TRUE]
    /\ UNCHANGED <<error_message, stderr, error_category>>
    /\ UNCHANGED <<appVars, logVars, envVars, dbVars>>

NoText ==
    /\ error_message = ""
    /\ stderr = ""
    /\ error_category = NoneStr
    /\ error_fields = NoFields

\* ------------------------------------------------------ runtime_config.py
\* os.getenv(name, default)
getenv(env, name, default) == IF name \in DOMAIN env THEN env[name] ELSE default

\* detect_runtime without the lower-casing of the override
detect_runtime_exact(env) ==
    LET override == getenv(env, "EXECUTION_RUNTIME", "")
    IN  IF override \in {"docker", "kubernetes"} THEN override
        ELSE IF getenv(env, "KUBERNETES_SERVICE_HOST", NoneStr) # "" THEN "kubernetes"
        ELSE "docker"

\* runtime_config.py:12-31
detect_runtime(env) ==
    LET override == lower(getenv(env, "EXECUTION_RUNTIME", ""))
    IN  IF override \in {"docker", "kubernetes"} THEN override
        ELSE IF getenv(env, "KUBERNETES_SERVICE_HOST", NoneStr) # "" THEN "kubernetes"
        ELSE "docker"

OverrideValues ==
    {"", "docker", "Docker", "DOCKER", "kubernetes", "Kubernetes", "KUBERNETES",
     "dOcKeR", "podman", "k8s", "docker ", "auto"}

HostValues == {"", "10.96.0.1", "kubernetes.default.svc", "0"}

\* the environments a backend process is started in
Environments ==
    UNION {[names -> OverrideValues \cup HostValues] :
              names \in SUBSET {"EXECUTION_RUNTIME", "KUBERNETES_SERVICE_HOST"}}

\* app.py:51: _execution_runtime = detect_runtime()
DetectRuntime ==
    /\ detected = NoneStr
    /\ detected' = detect_runtime(environ)
    /\ UNCHANGED <<environ, boot, script_runner, k8s_inits>>
    /\ UNCHANGED <<appVars, logVars, textVars, dbVars>>

\* no fall-back: the runtime stays what it was
NoFallBack(r) == r

\* app.py:64: the runtime after the orchestrator client failed to initialise
FallBack(r) == "docker"

\* app.py:51: the import of app.py begins with the detection
StartDetect ==
    /\ boot = "import"
    /\ detected' = detect_runtime(environ)
    /\ runtime' = detect_runtime(environ)
    /\ boot' = "detected"
    /\ UNCHANGED <<environ, script_runner, k8s_inits>>
    /\ UNCHANGED <<loop, now, runVars, fsVars, execVars, sweepVars, logVars, textVars, dbVars>>

\* app.py:54-64: with the kubernetes runtime, get_k8s_runner() gives the runner,
\* or raises (k8s_runner.py:32, or the import of the client fails) and the
\* runtime falls back to docker
StartKubernetes ==
    /\ boot = "detected"
    /\ runtime = "kubernetes"
    /\ k8s_inits' = k8s_inits + 1
    /\ \/ /\ script_runner' = "kubernetes"
          /\ UNCHANGED runtime
       \/ /\ runtime' = FallBack(runtime)
          /\ UNCHANGED script_runner
    /\ boot' = "k8s_done"
    /\ UNCHANGED <<environ, detected>>
    /\ UNCHANGED <<loop, now, runVars, fsVars, execVars, sweepVars, logVars, textVars, dbVars>>

\* app.py:66-74: with the docker runtime, get_docker_runner() gives the runner,
\* or raises (docker_runner.py:29-32) and the import ends with RuntimeError
StartDocker ==
    /\ boot \in {"detected", "k8s_done"}
    /\ runtime = "docker"
    /\ \/ /\ script_runner' = "docker"
          /\ boot' = "serving"
       \/ /\ boot' = "refused"
          /\ UNCHANGED script_runner
    /\ UNCHANGED <<environ, detected, k8s_inits, runtime>>
    /\ UNCHANGED <<loop, now, runVars, fsVars, execVars, sweepVars, logVars, textVars, dbVars>>

\* app.py:66: the runtime is kubernetes and its runner is there; the import goes
\* on and the application serves
StartServing ==
    /\ boot = "k8s_done"
    /\ runtime = "kubernetes"
    /\ boot' = "serving"
    /\ UNCHANGED <<environ, detected, script_runner, k8s_inits, runtime>>
    /\ UNCHANGED <<loop, now, runVars, fsVars, execVars, sweepVars, logVars, textVars, dbVars>>

\* the import of app.py has not begun
NotBooted ==
    /\ boot = "import"
    /\ script_runner = "none"
    /\ k8s_inits = 0

\* the import of app.py went through with the runtime the process has
Booted ==
    /\ boot = "serving"
    /\ script_runner = runtime
    /\ k8s_inits = 0

NoEnv ==
    /\ environ = <<>>
    /\ detected = NoneStr
    /\ Booted

\* ------------------------------------------------------------ specifications
NextRun ==
    \E j \in Jobs :
        \/ RunMkdirs(j)
        \/ RunWriteMarker(j)
        \/ RunStage(j)
        \/ RunImageSaved(j)
        \/ RunCallExecutor(j)
        \/ RunReport(j)
        \/ RunFinally(j)

NextDocker ==
    \E j \in Jobs :
        \/ DockerLaunch(j)
        \/ DockerExit(j)
        \/ DockerTimeout(j)
        \/ DockerStop(j)
        \/ ContainerExits(j)

NextK8s ==
    \E j \in Jobs :
        \/ K8sCreateConfigMap(j)
        \/ K8sCreatePod(j)
        \/ K8sPoll(j)
        \/ K8sWaitTimeout(j)
        \/ K8sGetLogs(j)
        \/ PodStarts(j)
        \/ PodFinishes(j)
        \/ PodEvicted(j)
        \/ PodVanishes(j)

SweepOf(c) ==
    \/ SweepCall(c)
    \/ SweepAcquire(c)
    \/ SweepOpenFailed(c)
    \/ SweepLocked(c)
    \/ SweepSkip(c)
    \/ SweepList(c)
    \/ SweepListFailed(c)
    \/ \E d \in Jobs : SweepCheck(c, d)
    \/ SweepRemove(c)
    \/ SweepKeep(c)
    \/ SweepRemoveFailed(c)
    \/ SweepExcept(c)
    \/ SweepReturn(c)

\* the logger, the classification and the runtime detection before any call
LibsIdle == LogsEmpty /\ NoText /\ NoEnv /\ NoDb

\* The process has started (app.py:51-74, 443-453) and no request has arrived.
\* The output root outlives the process: the directories L are left by an
\* earlier run of the backend, with their marker when that run ended before
\* the marker was removed.
Started(L) ==
    /\ loop = FreeLoop
    /\ now = 0
    /\ pc = [j \in Jobs |-> IF j \in L THEN "old" ELSE "idle"]
    /\ active_marker_path = [j \in Jobs |-> FALSE]
    /\ marker_io = [j \in Jobs |-> "none"]
    /\ response = [j \in Jobs |-> "none"]
    /\ joblog = [j \in Jobs |-> <<>>]
    /\ dir = [j \in Jobs |-> j \in L]
    /\ dirMtime = [j \in Jobs |-> 0]
    /\ marker \in [Jobs -> BOOLEAN]
    /\ \A j \in Jobs \ L : ~marker[j]
    /\ markerMtime = [j \in Jobs |-> 0]
    /\ xpc = [j \in Jobs |-> "none"]
    /\ result = [j \in Jobs |-> NoResult]
    /\ container = [j \in Jobs |-> "absent"]
    /\ configmap = [j \in Jobs |-> FALSE]
    /\ pod = [j \in Jobs |-> NoPod]
    /\ elapsed = [j \in Jobs |-> 0]
    /\ created = {}
    /\ deleteIssued = {}
    /\ spc = [c \in Callers |-> "idle"]
    /\ mutex = [p \in Procs |-> 0]
    /\ flock = NoCaller
    /\ lock_fh = [c \in Callers |-> "none"]
    /\ current_time = [c \in Callers |-> 0]
    /\ todo = [c \in Callers |-> {}]
    /\ cur = [c \in Callers |-> 0]
    /\ ref = "none"
    /\ again = "none"

\* the /run handler with either executor, on an empty output root
Init == runtime \in {"docker", "kubernetes"} /\ watch = NoCaller /\ Started({}) /\ LibsIdle

Next == NextRun \/ NextDocker \/ NextK8s

Spec == Init /\ [][Next]_vars

\* The sweep on its own: every caller of two processes sharing one output root,
\* the clock, and leftover directories.
SweepInit == runtime = "docker" /\ watch = NoCaller /\ Started(Jobs) /\ LibsIdle

SweepNext == (\E c \in Callers : SweepOf(c)) \/ Tick

SweepSpec == SweepInit /\ [][SweepNext]_vars

\* The periodic tasks of both processes, one of them watched from call to call.
TwiceInit ==
    /\ runtime = "docker" /\ watch \in {c \in Callers : IsPeriodic(c)} /\ Started(Jobs)
    /\ LibsIdle

TwiceNext == (\E c \in {x \in Callers : IsPeriodic(x)} : SweepOf(c)) \/ Tick

TwiceSpec == TwiceInit /\ [][TwiceNext]_vars

\* Requests served by a container backend while the periodic task of the peer
\* process sweeps the shared output root, with the clock and one leftover directory.
JobSweepInit == runtime = "docker" /\ watch = NoCaller /\ Started(Jobs \ {1}) /\ LibsIdle

JobSweepNext ==
    \/ NextRun
    \/ NextDocker
    \/ \E c \in {x \in Callers : IsPeriodic(x) /\ ~OnLoop(x)} : SweepOf(c)
    \/ Tick

JobSweepSpec == JobSweepInit /\ [][JobSweepNext]_vars

\* The periodic task of the serving process on an output root that an earlier
\* run of the backend left behind: directories of finished jobs, and directories
\* whose marker was never removed. Time passes; asyncio.sleep returns and the
\* event loop runs the task again (app.py:876-880); an operation on the file
\* system that is tried again and again does not fail every time.
PeriodicTask == <<Server, 1>>

CleanupInit == runtime = "docker" /\ watch = NoCaller /\ Started(Jobs) /\ LibsIdle

CleanupNext == SweepOf(PeriodicTask) \/ Tick

CleanupFairness ==
    /\ WF_vars(Tick)
    /\ WF_vars(SweepOf(PeriodicTask))
    /\ SF_vars(SweepLocked(PeriodicTask))
    /\ SF_vars(SweepList(PeriodicTask))
    /\ SF_vars(SweepRemove(PeriodicTask))
    /\ \A d \in Jobs : SF_vars(SweepCheck(PeriodicTask, d) /\ spc'[PeriodicTask] # "except")

CleanupSpec == CleanupInit /\ [][CleanupNext]_vars /\ CleanupFairness

\* The logger called from the serving process's event loop, one call after the
\* other, while a reader in another thread or process builds a summary.
LogInit == runtime = "docker" /\ watch = NoCaller /\ Started({}) /\ LibsIdle

LogSpec == LogInit /\ [][NextLog]_vars

\* log_failure's classification of an error, over every error message and
\* stderr put together from at most MaxFragments pieces
TextInit ==
    /\ runtime = "docker" /\ watch = NoCaller /\ Started({}) /\ LogsEmpty /\ NoEnv /\ NoDb
    /\ error_message \in Texts(MaxFragments)
    /\ stderr \in Texts(MaxFragments)
    /\ error_category \in CategoryArgs
    /\ error_fields = NoFields

TextSpec == TextInit /\ [][LogFailureClassify]_vars

\* log_failure's classification over texts that carry the words
\* _categorize_error looks for, one in the message and one in stderr
MarkerTexts ==
    {"",
     "boom ",
     "ImportError: cannot import name 'x' ",
     "ModuleNotFoundError: ",
     "AttributeError: ",
     "KeyError: 'x' ",
     "IndexError: ",
     "TypeError: ",
     "ValueError: ",
     "FileNotFoundError: ",
     "No such file or directory ",
     "Permission denied ",
     "Access is denied ",
     "Script execution timeout ",
     "MemoryError ",
     "SyntaxError: "}

CategoryInit ==
    /\ runtime = "docker" /\ watch = NoCaller /\ Started({}) /\ LogsEmpty /\ NoEnv /\ NoDb
    /\ error_message \in MarkerTexts
    /\ stderr \in MarkerTexts
    /\ error_category \in CategoryArgs
    /\ error_fields = NoFields

CategorySpec == CategoryInit /\ [][LogFailureClassify]_vars

\* Two backend processes, each with its ScriptLogger on the same logs directory,
\* log attempts at the same time; the file operations succeed.
SharedSpec == LogInit /\ [][NextShared]_vars

\* A client that sends /run again and again, each retry with the session_id of
\* an earlier response.
RetrySpec == LogInit /\ [][NextRetry]_vars

\* the runtime detection at the start of a backend process, over its environment
DetectInit ==
    /\ runtime = "docker" /\ watch = NoCaller /\ Started({}) /\ LogsEmpty /\ NoText /\ NoDb
    /\ environ \in Environments
    /\ detected = NoneStr
    /\ NotBooted

DetectSpec == DetectInit /\ [][DetectRuntime]_vars

\* The import of app.py in a few environments, and the requests it then serves
\* up to their hand-over to the runner.
StartEnvironments ==
    {e \in Environments : \A n \in DOMAIN e : e[n] \in {"", "Kubernetes", "10.96.0.1"}}

StartInit ==
    /\ runtime = NoneStr /\ watch = NoCaller /\ Started({}) /\ LogsEmpty /\ NoText /\ NoDb
    /\ environ \in StartEnvironments
    /\ detected = NoneStr
    /\ NotBooted

StartNext ==
    \/ StartDetect
    \/ StartKubernetes
    \/ StartDocker
    \/ StartServing
    \/ \E j \in Jobs :
          \/ RunMkdirs(j)
          \/ RunWriteMarker(j)
          \/ RunStage(j)
          \/ RunImageSaved(j)
          \/ RunCallExecutor(j)

StartSpec == StartInit /\ [][StartNext]_vars

\* -------------------------------------------------------------- properties
InFlight == {"marked", "ready", "await", "exec"}

\* C1: every result an executor returns has status success, failed or timeout,
\* and the status is success exactly when exit_code is 0.
C1_StatusIffExitCode ==
    \A j \in Jobs :
        xpc[j] = "returned" =>
            /\ result[j].status \in {"success", "failed", "timeout"}
            /\ result[j].status = "success" <=> result[j].exit_code = 0

\* C2 as stated: from the creation of the job directories to the return of the
\* executor call the marker exists, and it is absent once the handler has finished.
C2_MarkerThroughout ==
    \A j \in Jobs :
        /\ pc[j] \in InFlight => marker[j]
        /\ pc[j] = "done" => ~marker[j]

\* C2, amended: when the marker write went through, the marker exists while the
\* request is in flight and its directory is there; every exit path of the
\* handler ends with an attempt to remove the marker, and the marker is absent
\* once the handler has finished when that removal went through.
C2_MarkerBestEffort ==
    \A j \in Jobs :
        /\ (pc[j] \in InFlight /\ marker_io[j] = "written" /\ dir[j]) => marker[j]
        /\ pc[j] = "done" => marker_io[j] \in {"unlinked", "unlink_failed"}
        /\ (pc[j] = "done" /\ marker_io[j] = "unlinked") => ~marker[j]

\* C2's case: a handler whose executor call raised has finished and removed
\* the marker it had written.
C2_Witness ==
    \E j \in Jobs :
        pc[j] = "done" /\ xpc[j] = "raised" /\ marker_io[j] = "unlinked" /\ dir[j]

\* C3: when an executor call has returned status timeout, the job's container
\* or pod is not running.
C3_TimeoutStopsSandbox ==
    \A j \in Jobs :
        (xpc[j] = "returned" /\ result[j].status = "timeout") =>
            /\ container[j] # "running"
            /\ pod[j].phase \notin {"Pending", "Running"}

\* C4: when the orchestrator executor's run_script has finished, a delete has
\* been issued for every object it created for the job.
C4_DeleteIssuedForCreated ==
    \A j \in Jobs :
        xpc[j] \in {"returned", "raised"} =>
            \A o \in created : o[2] = j => o \in deleteIssued

\* C5: run_script never leaves by an exception.
C5_RunScriptNeverRaises == \A j \in Jobs : xpc[j] # "raised"

\* C6: when the budget is used up before the container or pod has ended the executor
\* returns status timeout with exit_code -1, and the handler answers a job whose
\* executor returned timeout on the timeout path: the timeout response and one
\* record of category timeout, none from the code-error path.
C6_TimeoutOnTimeoutPath ==
    \A j \in Jobs :
        /\ (xpc[j] = "k_logs" /\ ~BudgetLeft(elapsed[j])) =>
              (result[j].status = "timeout" /\ result[j].exit_code = -1)
        /\ (xpc[j] = "returned" /\ IsTimeout(result[j])) => result[j].exit_code = -1
        /\ (pc[j] \in {"finally", "done"} /\ xpc[j] = "returned" /\ IsTimeout(result[j])) =>
              (response[j] = "timeout" /\ joblog[j] = <<TimeoutLog>>)

\* a step removes directory d
Deleted(d) == dir[d] /\ ~dir'[d]

\* directory d is due at the time caller c's sweep took: it is at least the
\* retention threshold old and has no marker younger than twice the threshold
Due(c, d) ==
    /\ dir[d]
    /\ current_time[c] - dirMtime[d] >= max_age_minutes * 60
    /\ ~(marker[d] /\ current_time[c] - markerMtime[d] < 2 * max_age_minutes * 60)

\* caller c's step ends its visit of entry d, normally or in an except block
Visited(c, d) ==
    \/ spc[c] = "scan" /\ d \in todo[c] /\ d \notin todo'[c] /\ spc'[c] \in {"scan", "except"}
    \/ spc[c] = "remove" /\ cur[c] = d /\ spc'[c] \in {"scan", "except"}

\* C7 as stated: a sweep deletes the directory it visits if and only if the
\* directory is due, and no sweep deletes a directory whose marker is fresh.
C7_DeletesIffDue ==
    [][\A d \in Jobs :
          /\ \A c \in Callers : Visited(c, d) => (Deleted(d) <=> Due(c, d))
          /\ Deleted(d) => ~(marker[d] /\ now - markerMtime[d] < 2 * max_age_minutes * 60)]_vars

\* C7, amended: a sweep deletes a directory only if it is due, and deletes every
\* due directory it visits unless stat or rmtree raises, in which case the
\* directory stays; no sweep deletes a directory whose marker is fresh.
C7_DeletesDueUnlessError ==
    [][\A d \in Jobs :
          /\ \A c \in Callers :
                Visited(c, d) => IF spc'[c] = "except" THEN ~Deleted(d)
                                 ELSE Deleted(d) <=> Due(c, d)
          /\ Deleted(d) => ~(marker[d] /\ now - markerMtime[d] < 2 * max_age_minutes * 60)]_vars

\* C7's case: a sweep has visited every entry, removed the leftover directory
\* and kept the directory, old enough to go, of a request in flight whose
\* marker is fresh.
C7_Witness ==
    \E c \in Callers, j \in Jobs :
        /\ spc[c] = "scan" /\ todo[c] = {}
        /\ pc[j] \in InFlight /\ dir[j] /\ marker[j]
        /\ current_time[c] - dirMtime[j] >= max_age_minutes * 60
        /\ \E d \in Jobs : pc[d] = "old" /\ ~dir[d]

\* C8: at most one call of cleanup_old_outputs is in its scan-and-delete phase.
C8_OneSweepAtATime ==
    Cardinality({c \in Callers : spc[c] \in {"scan", "remove", "except"}}) <= 1

\* C9: a call never waits for the holder of the lock: no call stands before
\* CLEANUP_MUTEX while another thread of its process holds it.
C9_NeverWaits == \A c \in Callers : spc[c] = "enter" => MutexFree(c[1])

C11_PeriodicSweepSurvives ==
    \A c \in Callers : IsPeriodic(c) => spc[c] # "raised"

\* C12: when log_success, called with previous_attempt_id = A where A is the id
\* of a failure record, has returned S, failure record A has fixed_by = S.
C12_FixedByAfterSuccess ==
    (/\ lpc = "returned"
     /\ call.kind = "success"
     /\ call.previous_attempt_id \in LogIds
     /\ failures_dir[call.previous_attempt_id] # NoFile)
        => failures_dir[call.previous_attempt_id].fixed_by = call.log_id

\* C12's case: log_success has returned after naming a failure record that an
\* earlier log_failure call wrote and returned.
C12_Witness ==
    /\ lpc = "returned"
    /\ call.kind = "success"
    /\ call.previous_attempt_id \in LogIds
    /\ failures_dir[call.previous_attempt_id] # NoFile
    /\ failures_dir[call.previous_attempt_id].fixed_by = call.log_id
    /\ sessions_dir[failures_dir[call.previous_attempt_id].session_id] # NoFile

\* the log record with id i, in whichever directory it was written
Record(i) == IF failures_dir[i] # NoFile THEN failures_dir[i] ELSE successes_dir[i]

\* C13: a record written with previous_attempt_id = A has the session_id of
\* record A, and once a success naming failure A has been logged, A's session
\* lists A and then the success, with status resolved.
C13_SameSessionAsPrevious ==
    \A i \in LogIds :
        LET A == Record(i).previous_attempt_id
        IN  (Record(i) # NoFile /\ A \in LogIds /\ Record(A) # NoFile) =>
                /\ Record(i).session_id = Record(A).session_id
                /\ (/\ Record(i).status = "success"
                    /\ Record(A).status = "failed"
                    /\ ~(lpc \in {"session", "raised"} /\ call.log_id = i)) =>
                        LET s == sessions_dir[Record(A).session_id]
                        IN  /\ s # NoFile
                            /\ s.status = "resolved"
                            /\ \E m, n \in 1 .. Len(s.attempts) :
                                   /\ m < n
                                   /\ s.attempts[m].log_id = A
                                   /\ s.attempts[n].log_id = i

\* C14: no reader sees a persisted success record naming failure A together
\* with a failure record A that has no fixed_by.
C14_NoHalfLinkedSuccess ==
    rpc = "summary" => seen_fixes \cap seen_unfixed = {}

\* C16: once a failure record's fixed_by is set it never changes.
C16_FixedByNeverChanges ==
    [][\A i \in LogIds :
          (failures_dir[i] # NoFile /\ failures_dir[i].fixed_by # None) =>
              failures_dir'[i].fixed_by = failures_dir[i].fixed_by]_vars

C15_OneLogRecordPerRun ==
    \A j \in Jobs :
        (pc[j] = "done" /\ xpc[j] \in {"returned", "raised"} /\ response[j] # "error")
            => Len(joblog[j]) = 1

\* C18: when the error text (error message plus stderr) contains
\* "ModuleNotFoundError: " or "No module named ", and the caller passes no
\* category, log_failure records error_category = import_error and
\* error_type = ModuleNotFoundError.
C18_ImportErrorClassified ==
    (/\ error_fields.written
     /\ error_category = NoneStr
     /\ \/ Contains(error_message \o " " \o stderr, "ModuleNotFoundError: ")
        \/ Contains(error_message \o " " \o stderr, "No module named "))
        => /\ error_fields.error_category = "import_error"
           /\ error_fields.error_type = "ModuleNotFoundError"

\* o spells name, whatever the case of its letters (upper is name in capitals)
Spells(o, name, upper) ==
    /\ Len(o) = Len(name)
    /\ \A i \in 1 .. Len(name) : Char(o, i) \in {Char(name, i), Char(upper, i)}

\* C20: detect_runtime returns docker or kubernetes when the override names it,
\* in any case; otherwise kubernetes when the in-cluster variable is set and
\* not empty; otherwise docker.
C20_DetectRuntime ==
    detected # NoneStr =>
        LET o == IF "EXECUTION_RUNTIME" \in DOMAIN environ
                 THEN environ["EXECUTION_RUNTIME"] ELSE ""
            inCluster == /\ "KUBERNETES_SERVICE_HOST" \in DOMAIN environ
                         /\ environ["KUBERNETES_SERVICE_HOST"] # ""
        IN  detected = IF Spells(o, "docker", "DOCKER") THEN "docker"
                       ELSE IF Spells(o, "kubernetes", "KUBERNETES") THEN "kubernetes"
                       ELSE IF inCluster THEN "kubernetes"
                       ELSE "docker"

\* C20's case: the override names docker in mixed case inside a cluster, and
\* detect_runtime has returned docker.
C20_Witness ==
    /\ detected = "docker"
    /\ DOMAIN environ = {"EXECUTION_RUNTIME", "KUBERNETES_SERVICE_HOST"}
    /\ environ["EXECUTION_RUNTIME"] = "dOcKeR"
    /\ environ["KUBERNETES_SERVICE_HOST"] = "10.96.0.1"

\* C19: when the script exits nonzero on an import of a module that is not
\* installed, with the traceback in the executor's captured output, the failure
\* record /run persists for the job has error_category = import_error.
C19_ImportFailureCategory ==
    \A j \in Jobs :
        (/\ xpc[j] = "returned"
         /\ result[j].status = "failed"
         /\ result[j].exit_code > 0
         /\ joblog[j] # <<>>
         /\ Contains(result[j].logs, "ModuleNotFoundError: No module named"))
            => joblog[j][1].category = "import_error"

\* the positions of a job inside either runner's run_script
Dispatched == {"d_start", "d_wait", "d_stop", "k_cm", "k_pod", "k_wait", "k_logs", "returned", "raised"}

\* C21: the backend is fixed when the import of app.py ends: get_k8s_runner is
\* called at most once and a failure of it leaves the docker runner for every
\* job; when the docker runner fails too no request is ever served; and when a
\* job is handed to a runner, script_runner is set, is the runner of the
\* runtime chosen at startup, and is the one the job is handed to.
C21_BackendFixedAtStartup ==
    [][/\ k8s_inits' <= 1
       /\ boot = "serving" =>
              /\ boot' = "serving"
              /\ script_runner' = script_runner
              /\ runtime' = runtime
              /\ k8s_inits' = k8s_inits
       /\ boot = "refused" => (boot' = "refused" /\ pc' = pc /\ xpc' = xpc)
       /\ boot # "serving" => (pc = pc' /\ \A j \in Jobs : pc[j] = "idle")
       /\ \A j \in Jobs :
              xpc'[j] \in Dispatched =>
                  /\ script_runner' \in {"docker", "kubernetes"}
                  /\ script_runner' = runtime'
                  /\ (k8s_inits' = 1 /\ detected' = "kubernetes" /\ script_runner' = "docker")
                         => xpc'[j] = "d_start"
                  /\ xpc'[j] = (IF script_runner' = "kubernetes" THEN "k_cm" ELSE "d_start")]_vars

\* C21's case: the orchestrator client failed to initialise, the process fell
\* back to the container backend, and a job has been handed to it.
C21_Witness ==
    /\ boot = "serving"
    /\ detected = "kubernetes"
    /\ k8s_inits = 1
    /\ script_runner = "docker"
    /\ \E j \in Jobs : xpc[j] = "d_start"

\* C22: every result handed back to run_code, from either runner and for every
\* outcome, has the keys status, exit_code, logs, stdout and stderr.
C22_ResultHasAllKeys ==
    \A j \in Jobs :
        xpc[j] = "returned" =>
            {"status", "exit_code", "logs", "stdout", "stderr"} \subseteq result[j].keys

\* positions of a job inside script_runner.run_script, before it returns
InExecutorCall == {"d_start", "d_wait", "d_stop", "k_cm", "k_pod", "k_wait", "k_logs"}

\* C23: while a job is inside its executor call, another request can begin its
\* own job and the periodic cleanup task of the serving process can begin a call.
C23_LoopFreeDuringExecutor ==
    \A j \in Jobs :
        xpc[j] \in InExecutorCall =>
            /\ \A k \in Jobs \ {j} : pc[k] = "idle" => ENABLED RunMkdirs(k)
            /\ spc[<<Server, 1>>] = "idle" => ENABLED SweepCall(<<Server, 1>>)

C25_LeftoverEventuallyDeleted == \A d \in Jobs : dir[d] ~> ~dir[d]

\* a word of s begins at position i
WordStart(s, i) == IsWordChar(Char(s, i)) /\ (i = 1 \/ ~IsWordChar(Char(s, i - 1)))

\* the class name "...Error" or "...Exception" that begins at i and is followed
\* by a colon, if there is one
ErrorNameAt(s, i) ==
    IF WordEnds(s, i, "Error") # {}
    THEN SubSeq(s, i, Greatest(WordEnds(s, i, "Error")) + Len("Error"))
    ELSE IF WordEnds(s, i, "Exception") # {}
    THEN SubSeq(s, i, Greatest(WordEnds(s, i, "Exception")) + Len("Exception"))
    ELSE NoneStr

\* C26: the error_type log_failure stores is the class name of the last
\* "SomeError:" or "SomeException:" of stderr.
C26_LastErrorTypeStored ==
    LET names == {i \in 1 .. Len(stderr) :
                     WordStart(stderr, i) /\ ErrorNameAt(stderr, i) # NoneStr}
    IN  (error_fields.written /\ names # {}) =>
            error_fields.error_type = ErrorNameAt(stderr, Greatest(names))

\* the marker words in the order of the tests, each list with its category
MarkerOrder ==
    <<[markers |-> {"import", "modulenotfounderror"}, category |-> "import_error"],
      [markers |-> {"attributeerror"}, category |-> "attribute_error"],
      [markers |-> {"keyerror", "indexerror"}, category |-> "data_access_error"],
      [markers |-> {"typeerror"}, category |-> "type_error"],
      [markers |-> {"valueerror"}, category |-> "value_error"],
      [markers |-> {"filenotfounderror", "no such file"}, category |-> "file_not_found"],
      [markers |-> {"permission", "access"}, category |-> "permission_error"],
      [markers |-> {"timeout"}, category |-> "timeout"],
      [markers |-> {"memory"}, category |-> "memory_error"],
      [markers |-> {"syntax"}, category |-> "syntax_error"]>>

\* the entries of MarkerOrder with a marker that occurs in text
Hits(text) ==
    {n \in 1 .. Len(MarkerOrder) : \E k \in MarkerOrder[n].markers : Contains(text, k)}

\* C27: the category log_failure computes is that of the earliest entry of the
\* order with a marker in the lower-cased message and stderr, and unknown when
\* no entry has one.
C27_OrderedFirstMatch ==
    (error_fields.written /\ error_category = NoneStr) =>
        LET hits == Hits(lower(error_message \o " " \o stderr))
        IN  /\ hits = {} => error_fields.error_category = "unknown"
            /\ \A n \in hits :
                  (\A m \in hits : n <= m) =>
                      error_fields.error_category = MarkerOrder[n].category

\* a text with a marker of two entries was classified by the earlier one
C27_Witness ==
    /\ error_fields.written /\ error_category = NoneStr
    /\ error_message = "Access is denied " /\ stderr = "KeyError: 'x' "
    /\ error_fields.error_category = "data_access_error"

\* the log ids of the attempts logged with session id s
LoggedInto(s) ==
    {i \in LogIds : \/ failures_dir[i] # NoFile /\ failures_dir[i].session_id = s
                    \/ successes_dir[i] # NoFile /\ successes_dir[i].session_id = s}

\* C28: once no logger call is in flight, the attempts list of every session
\* holds each attempt logged into the session exactly once, in logging order.
C28_NoAttemptLost ==
    (\A w \in Procs : wpc[w] \in {"idle", "returned"}) =>
        \A s \in LogIds :
            LoggedInto(s) # {} =>
                /\ sessions_dir[s] # NoFile
                /\ Len(sessions_dir[s].attempts) = Cardinality(LoggedInto(s))
                /\ {sessions_dir[s].attempts[n].log_id :
                       n \in 1 .. Len(sessions_dir[s].attempts)} = LoggedInto(s)
                /\ \A m, n \in 1 .. Len(sessions_dir[s].attempts) :
                      m < n => sessions_dir[s].attempts[m].log_id
                                  < sessions_dir[s].attempts[n].log_id

\* C29: a session is resolved exactly when its attempts list holds a success,
\* in_progress otherwise, and a resolved session stays resolved whatever is
\* logged into it afterwards.
C29_ResolvedIsStable ==
    [][\A s \in LogIds :
          /\ (sessions_dir[s] # NoFile /\ sessions_dir[s].status = "resolved") =>
                (sessions_dir'[s] # NoFile /\ sessions_dir'[s].status = "resolved")
          /\ sessions_dir'[s] # NoFile =>
                /\ sessions_dir'[s].status \in {"in_progress", "resolved"}
                /\ sessions_dir'[s].status = "resolved" <=>
                      \E n \in 1 .. Len(sessions_dir'[s].attempts) :
                          sessions_dir'[s].attempts[n].status = "success"]_vars

\* C30: a request of a registered user that carries the session_id of an
\* earlier attempt is not answered with an error before its job runs.
C30_RetryReachesExecutor ==
    (rq.registered /\ rq.session_id # None) => rq.pos # "error"

====
